---- MODULE Spec2Model ----
(***************************************************************************)
(* Model of the hub cluster controller (pkg/cluster/controller.go): the    *)
(* two filtered informer registrations that feed the work queue, and the   *)
(* staged sync that reads ManagedCluster and ManifestWork objects from the *)
(* listers (watch caches) and writes ManifestWorks through the work client.*)
(***************************************************************************)
EXTENDS Naturals, Sequences, FiniteSets, TLC

\* ------------------------------------------------------------------------
\* Bounds
\* ------------------------------------------------------------------------

\* Largest resourceVersion the API server hands out in the model.
MaxRV == 2

\* ------------------------------------------------------------------------
\* Names and constants of the program
\* ------------------------------------------------------------------------

HOH_HUB_CLUSTER_SUBSCRIPTION == "hoh-hub-cluster-subscription"

HOH_HUB_CLUSTER_MCH == "hoh-hub-cluster-mch"

\* Names of the ManagedClusters of the model.
ClusterNames == {"cluster1", "local-cluster"}

\* A nil *string (FieldValue.String of a feedback value that is not a string).
NilPtr == "<nil>"

\* A nil error.
NoErr == ""

\* A Go map without entries; a nil map is told apart by the IsNil flag.
EmptyMap == [k \in {} |-> ""]

\* m[k] of a Go map: the zero value when the key is missing.
MapGet(m, k) == IF k \in DOMAIN m THEN m[k] ELSE ""

\* ------------------------------------------------------------------------
\* Objects
\* ------------------------------------------------------------------------

\* ManagedCluster label maps.
LabelSets == {EmptyMap, [hoh |-> "disabled"], [hoh |-> "enabled"]}

\* ManagedCluster annotation maps: nil, without the mch key, a valid
\* user defined MCH and one that the MCH builder rejects.
AnnotationSets ==
    { [IsNil |-> TRUE,  Map |-> EmptyMap],
      [IsNil |-> FALSE, Map |-> EmptyMap],
      [IsNil |-> FALSE, Map |-> [mch |-> "{mch-a}"]],
      [IsNil |-> FALSE, Map |-> [mch |-> "{bad"]] }

ManagedCluster(name, labels, annotations) ==
    [Name |-> name, Labels |-> labels, Annotations |-> annotations]

\* The ManagedCluster objects the cluster informer may hold for a name.
ManagedClustersNamed(name) ==
    IF name = "local-cluster"
    THEN { ManagedCluster(name, [hoh |-> "enabled"], [IsNil |-> TRUE, Map |-> EmptyMap]) }
    ELSE { ManagedCluster(name, EmptyMap, a) : a \in AnnotationSets } \cup
         { ManagedCluster(name, l, [IsNil |-> TRUE, Map |-> EmptyMap]) : l \in LabelSets }

FeedbackValue(name, type, str) ==
    [Name |-> name, Value |-> [Type |-> type, String |-> str]]

ManifestCondition(kind, values) == [Kind |-> kind, Values |-> values]

\* Status.ResourceStatus.Manifests values the work agent reports.
StatusEmpty == << >>

StatusProgressing ==
    << ManifestCondition("Subscription",
          << FeedbackValue("state", "String", "Progressing") >>) >>

StatusAtLatestKnown ==
    << ManifestCondition("OperatorGroup", << >>),
       ManifestCondition("Subscription",
          << FeedbackValue("installedCSV", "String", "AtLatestKnown"),
             FeedbackValue("state", "String", "AtLatestKnown") >>) >>

StatusOtherKind ==
    << ManifestCondition("Deployment",
          << FeedbackValue("state", "String", "AtLatestKnown") >>) >>

StatusNonString ==
    << ManifestCondition("Subscription",
          << FeedbackValue("state", "Integer", NilPtr) >>) >>

Statuses ==
    { StatusEmpty, StatusProgressing, StatusAtLatestKnown,
      StatusOtherKind, StatusNonString }

ManifestWork(namespace, name, rv, spec, manifests) ==
    [Namespace |-> namespace, Name |-> name, ResourceVersion |-> rv,
     Spec |-> spec, Manifests |-> manifests]

\* The nil *ManifestWork a lister returns next to an error.
NilWork == ManifestWork("", "", 0, "", << >>)

\* The nil *ManagedCluster a lister returns next to an error.
NilCluster == ManagedCluster("", EmptyMap, [IsNil |-> TRUE, Map |-> EmptyMap])

\* Key of a ManifestWork in the store and in the lister.
WorkKey(namespace, name) == << namespace, name >>

\* ------------------------------------------------------------------------
\* State
\* ------------------------------------------------------------------------

VARIABLES
    clusters,   \* clusterLister: ManagedClusters in the cluster informer cache, by name
    store,      \* ManifestWorks held by the API server, by WorkKey
    cache,      \* workLister: ManifestWorks in the work informer cache, by WorkKey
    queue,      \* keys waiting in the controller's work queue
    lastEvent,  \* the notification an informer has just delivered, and the key it enqueued
    last,       \* the sync invocation that returned last, while nothing changed since
                \* (and, if it met a failure, no work notification came since)
    processing  \* the key each queue worker is running sync for ("" when it is idle)

vars == << clusters, store, cache, queue, lastEvent, last, processing >>

\* ------------------------------------------------------------------------
\* Desired state builders and EnsureManifestWork
\* ------------------------------------------------------------------------

\* User defined MCH values the MCH builder cannot parse.
InvalidMCH == {"{bad"}

CreateSubManifestwork(managedClusterName) ==
    ManifestWork(managedClusterName,
                 managedClusterName \o "-" \o HOH_HUB_CLUSTER_SUBSCRIPTION,
                 0, "subscription/" \o managedClusterName, << >>)

CreateMCHManifestwork(managedClusterName, userDefinedMCH) ==
    IF userDefinedMCH \in InvalidMCH
    THEN [err |-> "InvalidMCH", obj |-> NilWork]
    ELSE [err |-> NoErr,
          obj |-> ManifestWork(managedClusterName,
                      managedClusterName \o "-" \o HOH_HUB_CLUSTER_MCH,
                      0, "mch/" \o managedClusterName \o "/" \o userDefinedMCH,
                      << >>)]

\* Reports whether the existing work differs from the desired one in the
\* authored fields; resourceVersion and status are not compared.
EnsureManifestWork(existing, desired) ==
    [updated |-> existing.Spec # desired.Spec, err |-> NoErr]

\* ------------------------------------------------------------------------
\* Listers and the work client
\* ------------------------------------------------------------------------

\* clusterLister.Get(name); fault injects a lister failure.
ClusterGet(name, fault) ==
    IF fault THEN [err |-> "Internal", obj |-> NilCluster]
    ELSE IF name \in DOMAIN clusters THEN [err |-> NoErr, obj |-> clusters[name]]
    ELSE [err |-> "NotFound", obj |-> NilCluster]

\* workLister.ManifestWorks(namespace).Get(name); fault injects a lister failure.
WorkGet(namespace, name, fault) ==
    IF fault THEN [err |-> "Internal", obj |-> NilWork]
    ELSE IF WorkKey(namespace, name) \in DOMAIN cache
         THEN [err |-> NoErr, obj |-> cache[WorkKey(namespace, name)]]
    ELSE [err |-> "NotFound", obj |-> NilWork]

\* errors.IsNotFound answering no to every error.
IsNotFound_Never(err) == FALSE

IsNotFound(err) == err = "NotFound"

\* One call on the work client, as issued: the verb, the namespace of the
\* client, the object sent and the error that came back.
Call(verb, namespace, obj, err) ==
    [Verb |-> verb, Namespace |-> namespace, Name |-> obj.Name,
     ResourceVersion |-> obj.ResourceVersion, Spec |-> obj.Spec, Err |-> err]

\* The context sync was called with, as the calls of an invocation that
\* meets the failure fault find it: "done" when it has been cancelled.
Ctx(fault) == IF fault = "ctxDone" THEN "done" ELSE "live"

\* workclient.ManifestWorks(namespace).Create(ctx, obj) against the store st:
\* a request under a cancelled context is not sent.
WorkCreate(ctx, st, namespace, obj, fault) ==
    LET k == WorkKey(namespace, obj.Name) IN
    IF ctx = "done" THEN [err |-> "Canceled", store |-> st]
    ELSE IF fault THEN [err |-> "Internal", store |-> st]
    ELSE IF k \in DOMAIN st THEN [err |-> "AlreadyExists", store |-> st]
    ELSE [err |-> NoErr,
          store |-> (k :> ManifestWork(namespace, obj.Name, 1, obj.Spec, << >>)) @@ st]

\* workclient.ManifestWorks(namespace).Update(ctx, obj) against the store
\* st: optimistic concurrency on resourceVersion; status is a subresource
\* and is left as it is.
WorkUpdate(ctx, st, namespace, obj, fault) ==
    LET k == WorkKey(namespace, obj.Name) IN
    IF ctx = "done" THEN [err |-> "Canceled", store |-> st]
    ELSE IF fault THEN [err |-> "Internal", store |-> st]
    ELSE IF k \notin DOMAIN st THEN [err |-> "NotFound", store |-> st]
    ELSE IF obj.ResourceVersion # st[k].ResourceVersion
         THEN [err |-> "Conflict", store |-> st]
    ELSE [err |-> NoErr,
          store |-> [st EXCEPT ![k] =
                        ManifestWork(namespace, obj.Name, st[k].ResourceVersion + 1,
                                     obj.Spec, st[k].Manifests)]]

\* ------------------------------------------------------------------------
\* Event filters and queue key functions (NewHubClusterController)
\* ------------------------------------------------------------------------

\* An object as an informer hands it to a filter: Malformed objects are those
\* meta.Accessor fails on (a deletion tombstone, for one).
Object(malformed, namespace, name, labels) ==
    [Malformed |-> malformed, Namespace |-> namespace, Name |-> name,
     Labels |-> labels]

\* What a queue key function yields when it calls a method on the nil
\* accessor of a malformed object.
Panic == "<panic>"

ClusterQueueKeyFunc(obj) == IF obj.Malformed THEN Panic ELSE obj.Name

ClusterFilter(obj) ==
    IF obj.Malformed THEN FALSE
    ELSE IF MapGet(obj.Labels, "hoh") = "disabled" \/ obj.Name = "local-cluster"
         THEN FALSE
    ELSE TRUE

\* WorkQueueKeyFunc with the key taken from the name, as for a cluster.
WorkQueueKeyFunc_Name(obj) == IF obj.Malformed THEN Panic ELSE obj.Name

WorkQueueKeyFunc(obj) == IF obj.Malformed THEN Panic ELSE obj.Namespace

\* WorkFilter admitting no ManifestWork at all.
WorkFilter_Never(obj) == FALSE

\* WorkFilter without the comparison of the name.
WorkFilter_AnyName(obj) == IF obj.Malformed THEN FALSE ELSE TRUE

WorkFilter(obj) ==
    IF obj.Malformed THEN FALSE
    ELSE IF \/ obj.Name = obj.Namespace \o "-" \o HOH_HUB_CLUSTER_SUBSCRIPTION
            \/ obj.Name = obj.Namespace \o "-" \o HOH_HUB_CLUSTER_MCH
         THEN TRUE
    ELSE FALSE

\* ------------------------------------------------------------------------
\* sync
\* ------------------------------------------------------------------------

\* What can befall a sync invocation: a transient failure at one of its
\* steps, or the cancellation of its context while it runs (ctxDone: raised
\* once the ManagedCluster has been looked up).
FaultPoints ==
    { "none", "getCluster", "getSubscription", "writeSubscription",
      "getMCH", "createMCH", "updateMCH", "ctxDone" }

\* The inner loop of the status scan, from values[j] on: "found" at the first
\* value named state that is AtLatestKnown, "panic" when a value named state
\* has a nil String, "next" when the values are exhausted.
RECURSIVE ScanValues(_, _)
ScanValues(values, j) ==
    IF j > Len(values) THEN "next"
    ELSE LET value == values[j] IN
         IF value.Name = "state"
         THEN IF value.Value.String = NilPtr THEN "panic"
              ELSE IF value.Value.String = "AtLatestKnown" THEN "found"
              ELSE ScanValues(values, j + 1)
         ELSE ScanValues(values, j + 1)

\* The outer loop of the status scan, from manifests[i] on.
RECURSIVE ScanManifests(_, _)
ScanManifests(manifests, i) ==
    IF i > Len(manifests) THEN "none"
    ELSE LET conditions == manifests[i] IN
         IF conditions.Kind = "Subscription"
         THEN LET r == ScanValues(conditions.Values, 1) IN
              IF r = "next" THEN ScanManifests(manifests, i + 1) ELSE r
         ELSE ScanManifests(manifests, i + 1)

\* SetResourceVersion left out: the desired object goes out as built.
SetResourceVersion_Unset(desired, existing) == desired

\* The existing object sent in place of the desired one.
SetResourceVersion_SendsExisting(desired, existing) == existing

\* desired.ObjectMeta.ResourceVersion = existing.ObjectMeta.ResourceVersion:
\* the object an update sends.
SetResourceVersion(desired, existing) ==
    [desired EXCEPT !.ResourceVersion = existing.ResourceVersion]

\* An update issued whatever EnsureManifestWork reports.
ShouldUpdate_Always(ensured) == TRUE

\* if updated { ... }: whether an update is issued after EnsureManifestWork.
ShouldUpdate(ensured) == ensured.updated

\* The annotation looked up only when the map is nil.
UserDefinedMCH_NilCheckInverted(managedCluster) ==
    IF managedCluster.Annotations.IsNil
    THEN MapGet(managedCluster.Annotations.Map, "mch")
    ELSE ""

\* The user defined MCH fetched from the ManagedCluster's annotations.
UserDefinedMCH(managedCluster) ==
    IF ~managedCluster.Annotations.IsNil
    THEN MapGet(managedCluster.Annotations.Map, "mch")
    ELSE ""

\* What a sync invocation did: the error it returned ("panic" for a runtime
\* fault), the calls it issued on the work client in order, the store they
\* left, and what the three lister reads returned.
Ret(err, calls, st, managedCluster, subscription, mch) ==
    [err |-> err, calls |-> calls, store |-> st,
     managedCluster |-> managedCluster, subscription |-> subscription,
     mch |-> mch]

NotRead == [err |-> "NotRead", obj |-> NilWork]

\* syncMCH going on with whatever the MCH builder returned next to an error.
syncMCH_BuildErrorIgnored(managedClusterName, managedCluster, subscription, st, calls, fault) ==
    LET userDefinedMCH == UserDefinedMCH(managedCluster.obj)
        desiredMCH == CreateMCHManifestwork(managedClusterName, userDefinedMCH)
    IN
    LET mch == WorkGet(managedClusterName,
                       managedClusterName \o "-" \o HOH_HUB_CLUSTER_MCH,
                       fault = "getMCH")
        created == WorkCreate(Ctx(fault), st, managedClusterName, desiredMCH.obj,
                              fault = "createMCH")
        createCall == Call("create", managedClusterName, desiredMCH.obj, created.err)
    IN
    IF IsNotFound(mch.err) /\ created.err # NoErr
    THEN Ret(created.err, Append(calls, createCall), created.store,
             managedCluster, subscription, mch)
    ELSE IF IsNotFound(mch.err)
    THEN \* err of the lookup is still the not-found one after the create
         Ret(mch.err, Append(calls, createCall), created.store,
             managedCluster, subscription, mch)
    ELSE IF mch.err # NoErr
    THEN Ret(mch.err, calls, st, managedCluster, subscription, mch)
    ELSE
    LET ensured == EnsureManifestWork(mch.obj, desiredMCH.obj)
        sent == SetResourceVersion(desiredMCH.obj, mch.obj)
        updated == WorkUpdate(Ctx(fault), st, managedClusterName, sent, fault = "updateMCH")
        updateCall == Call("update", managedClusterName, sent, updated.err)
    IN
    IF ensured.err # NoErr
    THEN Ret(ensured.err, calls, st, managedCluster, subscription, mch)
    ELSE IF ShouldUpdate(ensured) /\ updated.err # NoErr
    THEN Ret(updated.err, Append(calls, updateCall), updated.store,
             managedCluster, subscription, mch)
    ELSE IF ShouldUpdate(ensured)
    THEN Ret(NoErr, Append(calls, updateCall), updated.store,
             managedCluster, subscription, mch)
    ELSE Ret(NoErr, calls, st, managedCluster, subscription, mch)

\* The body of the status scan once state = AtLatestKnown is found.
syncMCH(managedClusterName, managedCluster, subscription, st, calls, fault) ==
    LET userDefinedMCH == UserDefinedMCH(managedCluster.obj)
        desiredMCH == CreateMCHManifestwork(managedClusterName, userDefinedMCH)
    IN
    IF desiredMCH.err # NoErr
    THEN Ret(desiredMCH.err, calls, st, managedCluster, subscription, NotRead)
    ELSE
    LET mch == WorkGet(managedClusterName,
                       managedClusterName \o "-" \o HOH_HUB_CLUSTER_MCH,
                       fault = "getMCH")
        created == WorkCreate(Ctx(fault), st, managedClusterName, desiredMCH.obj,
                              fault = "createMCH")
        createCall == Call("create", managedClusterName, desiredMCH.obj, created.err)
    IN
    IF IsNotFound(mch.err) /\ created.err # NoErr
    THEN Ret(created.err, Append(calls, createCall), created.store,
             managedCluster, subscription, mch)
    ELSE IF IsNotFound(mch.err)
    THEN \* err of the lookup is still the not-found one after the create
         Ret(mch.err, Append(calls, createCall), created.store,
             managedCluster, subscription, mch)
    ELSE IF mch.err # NoErr
    THEN Ret(mch.err, calls, st, managedCluster, subscription, mch)
    ELSE
    LET ensured == EnsureManifestWork(mch.obj, desiredMCH.obj)
        sent == SetResourceVersion(desiredMCH.obj, mch.obj)
        updated == WorkUpdate(Ctx(fault), st, managedClusterName, sent, fault = "updateMCH")
        updateCall == Call("update", managedClusterName, sent, updated.err)
    IN
    IF ensured.err # NoErr
    THEN Ret(ensured.err, calls, st, managedCluster, subscription, mch)
    ELSE IF ShouldUpdate(ensured) /\ updated.err # NoErr
    THEN Ret(updated.err, Append(calls, updateCall), updated.store,
             managedCluster, subscription, mch)
    ELSE IF ShouldUpdate(ensured)
    THEN Ret(NoErr, Append(calls, updateCall), updated.store,
             managedCluster, subscription, mch)
    ELSE Ret(NoErr, calls, st, managedCluster, subscription, mch)

\* syncGate going on to the MCH work whatever the scan finds.
syncGate_Ungated(managedClusterName, managedCluster, subscription, st, calls, fault) ==
    IF ScanManifests(subscription.obj.Manifests, 1) = "panic"
    THEN Ret("panic", calls, st, managedCluster, subscription, NotRead)
    ELSE syncMCH(managedClusterName, managedCluster, subscription, st, calls, fault)

\* The status scan over the subscription work read from the lister, and
\* what follows it.
syncGate(managedClusterName, managedCluster, subscription, st, calls, fault) ==
    LET scan == ScanManifests(subscription.obj.Manifests, 1) IN
    IF scan = "panic"
    THEN Ret("panic", calls, st, managedCluster, subscription, NotRead)
    ELSE IF scan = "found"
    THEN syncMCH(managedClusterName, managedCluster, subscription, st, calls, fault)
    ELSE Ret(NoErr, calls, st, managedCluster, subscription, NotRead)

\* syncSubscriptionCreate with the create sent to the client of the hub's
\* own namespace.
syncSubscriptionCreate_HubNamespace(managedClusterName, managedCluster, subscription, st, fault) ==
    LET desiredSubscription == CreateSubManifestwork(managedClusterName)
        created == WorkCreate(Ctx(fault), st, "local-cluster", desiredSubscription,
                              fault = "writeSubscription")
        createCall == Call("create", "local-cluster", desiredSubscription,
                           created.err)
    IN  Ret(created.err, << createCall >>, created.store,
            managedCluster, subscription, NotRead)

\* syncSubscriptionCreate without its own return: the lookup's not-found
\* error is what comes back after a create that succeeded.
syncSubscriptionCreate_NoReturn(managedClusterName, managedCluster, subscription, st, fault) ==
    LET desiredSubscription == CreateSubManifestwork(managedClusterName)
        created == WorkCreate(Ctx(fault), st, managedClusterName, desiredSubscription,
                              fault = "writeSubscription")
        createCall == Call("create", managedClusterName, desiredSubscription,
                           created.err)
    IN  Ret(IF created.err # NoErr THEN created.err ELSE subscription.err,
            << createCall >>, created.store,
            managedCluster, subscription, NotRead)

\* The subscription work is not in the lister: create it and return.
syncSubscriptionCreate(managedClusterName, managedCluster, subscription, st, fault) ==
    LET desiredSubscription == CreateSubManifestwork(managedClusterName)
        created == WorkCreate(Ctx(fault), st, managedClusterName, desiredSubscription,
                              fault = "writeSubscription")
        createCall == Call("create", managedClusterName, desiredSubscription,
                           created.err)
    IN  Ret(created.err, << createCall >>, created.store,
            managedCluster, subscription, NotRead)

\* syncSubscriptionEnsure returning nil once its update went through.
syncSubscriptionEnsure_ReturnsAfterUpdate(managedClusterName, managedCluster, subscription, st, fault) ==
    LET desiredSubscription == CreateSubManifestwork(managedClusterName)
        ensured == EnsureManifestWork(subscription.obj, desiredSubscription)
        sent == SetResourceVersion(desiredSubscription, subscription.obj)
        updated == WorkUpdate(Ctx(fault), st, managedClusterName, sent,
                              fault = "writeSubscription")
        updateCall == Call("update", managedClusterName, sent, updated.err)
    IN
    IF ensured.err # NoErr
    THEN Ret(ensured.err, << >>, st, managedCluster, subscription, NotRead)
    ELSE IF ShouldUpdate(ensured) /\ updated.err # NoErr
    THEN Ret(updated.err, << updateCall >>, st, managedCluster, subscription, NotRead)
    ELSE IF ShouldUpdate(ensured)
    THEN Ret(NoErr, << updateCall >>, updated.store,
             managedCluster, subscription, NotRead)
    ELSE syncGate(managedClusterName, managedCluster, subscription,
                  st, << >>, fault)

\* syncSubscriptionEnsure going on to the status scan after an update that
\* failed.
syncSubscriptionEnsure_SwallowsUpdateError(managedClusterName, managedCluster, subscription, st, fault) ==
    LET desiredSubscription == CreateSubManifestwork(managedClusterName)
        ensured == EnsureManifestWork(subscription.obj, desiredSubscription)
        sent == SetResourceVersion(desiredSubscription, subscription.obj)
        updated == WorkUpdate(Ctx(fault), st, managedClusterName, sent,
                              fault = "writeSubscription")
        updateCall == Call("update", managedClusterName, sent, updated.err)
    IN
    IF ensured.err # NoErr
    THEN Ret(ensured.err, << >>, st, managedCluster, subscription, NotRead)
    ELSE IF ShouldUpdate(ensured)
    THEN syncGate(managedClusterName, managedCluster, subscription,
                  updated.store, << updateCall >>, fault)
    ELSE syncGate(managedClusterName, managedCluster, subscription,
                  st, << >>, fault)

\* The subscription work is in the lister: update it if it differs from the
\* desired one, then go on to the status scan.
syncSubscriptionEnsure(managedClusterName, managedCluster, subscription, st, fault) ==
    LET desiredSubscription == CreateSubManifestwork(managedClusterName)
        ensured == EnsureManifestWork(subscription.obj, desiredSubscription)
        sent == SetResourceVersion(desiredSubscription, subscription.obj)
        updated == WorkUpdate(Ctx(fault), st, managedClusterName, sent,
                              fault = "writeSubscription")
        updateCall == Call("update", managedClusterName, sent, updated.err)
    IN
    IF ensured.err # NoErr
    THEN Ret(ensured.err, << >>, st, managedCluster, subscription, NotRead)
    ELSE IF ShouldUpdate(ensured) /\ updated.err # NoErr
    THEN Ret(updated.err, << updateCall >>, st, managedCluster, subscription, NotRead)
    ELSE IF ShouldUpdate(ensured)
    THEN syncGate(managedClusterName, managedCluster, subscription,
                  updated.store, << updateCall >>, fault)
    ELSE syncGate(managedClusterName, managedCluster, subscription,
                  st, << >>, fault)

\* sync for the queue key managedClusterName against the store st.
sync(managedClusterName, st, fault) ==
    LET managedCluster == ClusterGet(managedClusterName, fault = "getCluster") IN
    IF IsNotFound(managedCluster.err)
    THEN Ret(NoErr, << >>, st, managedCluster, NotRead, NotRead)
    ELSE IF managedCluster.err # NoErr
    THEN Ret(managedCluster.err, << >>, st, managedCluster, NotRead, NotRead)
    ELSE
    LET subscription ==
            WorkGet(managedClusterName,
                    managedClusterName \o "-" \o HOH_HUB_CLUSTER_SUBSCRIPTION,
                    fault = "getSubscription")
    IN
    IF IsNotFound(subscription.err)
    THEN syncSubscriptionCreate(managedClusterName, managedCluster, subscription,
                                st, fault)
    ELSE IF subscription.err # NoErr
    THEN Ret(subscription.err, << >>, st, managedCluster, subscription, NotRead)
    ELSE syncSubscriptionEnsure(managedClusterName, managedCluster, subscription,
                                st, fault)

\* ------------------------------------------------------------------------
\* Initial state
\* ------------------------------------------------------------------------

NoEvent ==
    [informer |-> "none", obj |-> Object(TRUE, "", "", EmptyMap),
     admitted |-> FALSE, key |-> "",
     keyCluster |-> [err |-> "NotFound", obj |-> NilCluster]]

NoSync ==
    [key |-> "", second |-> "first", prior |-> 0, current |-> FALSE,
     err |-> NoErr,
     calls |-> << >>,
     managedCluster |-> [err |-> "NotFound", obj |-> NilCluster],
     subscription |-> NotRead, mch |-> NotRead]

SubscriptionKey(ns) == WorkKey(ns, ns \o "-" \o HOH_HUB_CLUSTER_SUBSCRIPTION)

MCHKey(ns) == WorkKey(ns, ns \o "-" \o HOH_HUB_CLUSTER_MCH)

\* Contents the cluster informer can hold when the controller starts.
InitialClusters ==
    UNION { [names -> UNION { ManagedClustersNamed(n) : n \in names }] :
            names \in SUBSET ClusterNames }

\* ManifestWorks an earlier run of the controller can have left in namespace
\* ns: none, the subscription work, or both works; the subscription work
\* with any status and possibly edited since.
InitialWorks(ns) ==
    LET subs == { ManifestWork(ns, SubscriptionKey(ns)[2], 1, spec, manifests) :
                    spec \in { CreateSubManifestwork(ns).Spec, "edited" },
                    manifests \in Statuses }
        mchs == { ManifestWork(ns, MCHKey(ns)[2], 1,
                               CreateMCHManifestwork(ns, user).obj.Spec, << >>) :
                    user \in { "", "{mch-a}" } }
    IN  { EmptyMap } \cup
        { (SubscriptionKey(ns) :> sub) : sub \in subs } \cup
        { (SubscriptionKey(ns) :> sub) @@ (MCHKey(ns) :> mch) :
            sub \in subs, mch \in mchs }

\* The queue workers of the controller.
Workers == {"w1", "w2"}

\* No worker has taken a key.
Idle == [w \in Workers |-> ""]

\* The controller starts with its informers synced and its queue empty.
Init ==
    /\ clusters \in { cl \in InitialClusters :
                        \A n \in DOMAIN cl : cl[n].Name = n }
    /\ store \in InitialWorks("cluster1")
    /\ cache = store
    /\ queue = {}
    /\ lastEvent = NoEvent
    /\ last = NoSync
    /\ processing = Idle

\* ------------------------------------------------------------------------
\* Informer notifications
\* ------------------------------------------------------------------------

\* f without the key k.
Without(f, k) == [x \in DOMAIN f \ {k} |-> f[x]]

\* The cluster informer's handler: filter, then queue key, then enqueue.
\* cl is the cluster lister's content when the handler runs; the notification
\* is recorded when the router is the part observed.
DeliverCluster(obj, cl, observed) ==
    LET admitted == ClusterFilter(obj)
        key == IF admitted THEN ClusterQueueKeyFunc(obj) ELSE ""
    IN
    /\ queue' = IF key = Panic THEN {}
                ELSE IF admitted THEN queue \cup {key}
                ELSE queue
    /\ lastEvent' =
           IF observed # "router" THEN NoEvent
           ELSE [informer |-> "cluster", obj |-> obj, admitted |-> admitted,
                 key |-> key,
                 keyCluster |-> IF key \in DOMAIN cl
                                THEN [err |-> NoErr, obj |-> cl[key]]
                                ELSE [err |-> "NotFound", obj |-> NilCluster]]

\* The work informer's handler.
DeliverWork(obj, observed) ==
    LET admitted == WorkFilter(obj)
        key == IF admitted THEN WorkQueueKeyFunc(obj) ELSE ""
    IN
    /\ queue' = IF key = Panic THEN {}
                ELSE IF admitted THEN queue \cup {key}
                ELSE queue
    /\ lastEvent' =
           IF observed # "router" THEN NoEvent
           ELSE [informer |-> "work", obj |-> obj, admitted |-> admitted,
                 key |-> key, keyCluster |-> ClusterGet(key, FALSE)]

\* last after a change made outside sync to the cluster or the works of name.
Touched(name) == IF last.key = name THEN NoSync ELSE last

\* A ManagedCluster is added, updated or resynced.
ClusterEvent(name, obj, observed) ==
    /\ clusters' = (name :> obj) @@ clusters
    /\ DeliverCluster(Object(FALSE, "", obj.Name, obj.Labels), clusters', observed)
    /\ last' = IF name \in DOMAIN clusters /\ clusters[name] = obj
               THEN last ELSE Touched(name)
    /\ UNCHANGED << store, cache, processing >>

\* A ManagedCluster is deleted; the handler gets the object or a tombstone.
ClusterDelete(name, tombstone, observed) ==
    /\ name \in DOMAIN clusters
    /\ clusters' = Without(clusters, name)
    /\ DeliverCluster(IF tombstone THEN Object(TRUE, "", "", EmptyMap)
                      ELSE Object(FALSE, "", name, clusters[name].Labels),
                      clusters', observed)
    /\ last' = Touched(name)
    /\ UNCHANGED << store, cache, processing >>

\* No lister failed other than by not-found and no call on the client failed.
Clean(r) ==
    /\ r.managedCluster.err # "Internal"
    /\ r.subscription.err # "Internal"
    /\ r.mch.err # "Internal"
    /\ \A i \in 1..Len(r.calls) : r.calls[i].Err = NoErr

\* last after a notification of the work informer: an invocation that met
\* a failure is observed only until then.
Delivered == IF Clean(last) THEN last ELSE NoSync

\* The work informer catches up with the store on one ManifestWork (or
\* resyncs it) and notifies the handler.
WorkEvent(k, observed) ==
    /\ k \in DOMAIN store
    /\ cache' = (k :> store[k]) @@ cache
    /\ DeliverWork(Object(FALSE, store[k].Namespace, store[k].Name, EmptyMap),
                   observed)
    /\ last' = Delivered
    /\ UNCHANGED << clusters, store, processing >>

\* ManifestWorks of other owners, and objects the accessor fails on.
ForeignWorkObjects ==
    { Object(TRUE, "", "", EmptyMap) } \cup
    UNION { { Object(FALSE, ns, name, EmptyMap) :
                name \in { ns \o "-addon",
                           HOH_HUB_CLUSTER_SUBSCRIPTION,
                           "clusterx-" \o HOH_HUB_CLUSTER_MCH } } :
            ns \in ClusterNames }

\* A notification about a ManifestWork the controller does not own.
ForeignWorkEvent(obj, observed) ==
    /\ DeliverWork(obj, observed)
    /\ UNCHANGED << clusters, store, cache, last, processing >>

\* ------------------------------------------------------------------------
\* Changes to ManifestWorks made outside the controller
\* ------------------------------------------------------------------------

\* The work agent reports status feedback on the subscription work.
StatusFeedback(ns, manifests) ==
    LET k == SubscriptionKey(ns) IN
    /\ k \in DOMAIN store
    /\ store[k].ResourceVersion < MaxRV
    /\ store[k].Manifests # manifests
    /\ store' = [store EXCEPT ![k].Manifests = manifests,
                              ![k].ResourceVersion = @ + 1]
    /\ last' = Touched(ns)
    /\ lastEvent' = NoEvent
    /\ UNCHANGED << clusters, cache, queue, processing >>

\* Someone edits the spec of the subscription work.
SpecEdit(ns) ==
    LET k == SubscriptionKey(ns) IN
    /\ k \in DOMAIN store
    /\ store[k].ResourceVersion < MaxRV
    /\ store[k].Spec # "edited"
    /\ store' = [store EXCEPT ![k].Spec = "edited",
                              ![k].ResourceVersion = @ + 1]
    /\ last' = Touched(ns)
    /\ lastEvent' = NoEvent
    /\ UNCHANGED << clusters, cache, queue, processing >>

\* ------------------------------------------------------------------------
\* The worker
\* ------------------------------------------------------------------------

\* The work lister shows the store's ManifestWorks of namespace ns as they are.
CacheCurrent(ns) ==
    \A k \in DOMAIN store :
        k[1] = ns => k \in DOMAIN cache /\ cache[k] = store[k]

\* A worker takes key from the queue and runs sync for it. A returned error
\* puts the key back; a runtime fault ends the process and its queue. The
\* invocation is recorded when sync is the part observed: what it read and
\* did, whether the work lister showed the store's works of the key as they
\* were when it started (current), and how it follows the invocation before
\* it (second, prior): "first" when that one was for another key or
\* something changed outside sync since, "settled" when that one was for the
\* same key, met no failure, and the lister was current for both, "again"
\* otherwise.
Sync(key, fault, observed) ==
    LET r == sync(key, store, fault) IN
    /\ key \in queue
    /\ \A k \in DOMAIN r.store : r.store[k].ResourceVersion <= MaxRV
    /\ store' = r.store
    /\ queue' = IF r.err = "panic" THEN {}
                ELSE IF r.err # NoErr THEN queue
                ELSE queue \ {key}
    /\ last' = IF observed # "sync" THEN NoSync
               ELSE [key |-> key,
                     second |-> IF last.key # key THEN "first"
                                ELSE IF /\ Clean(last)
                                        /\ last.current
                                        /\ CacheCurrent(key)
                                     THEN "settled"
                                ELSE "again",
                     prior |-> IF last.key = key THEN Len(last.calls) ELSE 0,
                     current |-> CacheCurrent(key),
                     err |-> r.err, calls |-> r.calls,
                     managedCluster |-> r.managedCluster,
                     subscription |-> r.subscription, mch |-> r.mch]
    /\ lastEvent' = NoEvent
    /\ UNCHANGED << clusters, cache, processing >>

Step(observed) ==
    \/ \E name \in ClusterNames : \E obj \in ManagedClustersNamed(name) :
           ClusterEvent(name, obj, observed)
    \/ \E name \in ClusterNames : \E tombstone \in BOOLEAN :
           ClusterDelete(name, tombstone, observed)
    \/ \E k \in DOMAIN store : WorkEvent(k, observed)
    \/ \E obj \in ForeignWorkObjects : ForeignWorkEvent(obj, observed)
    \/ \E ns \in ClusterNames : \E manifests \in Statuses :
           StatusFeedback(ns, manifests)
    \/ \E ns \in ClusterNames : SpecEdit(ns)
    \/ \E key \in ClusterNames : \E fault \in FaultPoints :
           Sync(key, fault, observed)

\* The controller with its sync invocations observed.
Next == Step("sync")

Spec == Init /\ [][Next]_vars

\* The controller with its informer notifications observed.
NextRouter == Step("router")

SpecRouter == Init /\ [][NextRouter]_vars

\* ------------------------------------------------------------------------
\* The controller under fair scheduling
\* ------------------------------------------------------------------------

\* The keys the informers' initial add notifications put in the queue: one
\* notification for every object in the listers, through the filters.
InitialQueue(cl, works) ==
    { ClusterQueueKeyFunc(Object(FALSE, "", cl[n].Name, cl[n].Labels)) :
        n \in { m \in DOMAIN cl :
                  ClusterFilter(Object(FALSE, "", cl[m].Name, cl[m].Labels)) } }
    \cup
    { WorkQueueKeyFunc(Object(FALSE, works[k].Namespace, works[k].Name, EmptyMap)) :
        k \in { j \in DOMAIN works :
                  WorkFilter(Object(FALSE, works[j].Namespace, works[j].Name,
                                    EmptyMap)) } }

\* The controller has started: its informers are synced and have delivered
\* their initial notifications.
InitFair ==
    /\ clusters \in { cl \in InitialClusters :
                        \A n \in DOMAIN cl : cl[n].Name = n }
    /\ store \in InitialWorks("cluster1")
    /\ cache = store
    /\ queue = InitialQueue(clusters, store)
    /\ lastEvent = NoEvent
    /\ last = NoSync
    /\ processing = Idle

NextFair == Step("fair")

\* The work informer catches up on a ManifestWork its lister shows
\* otherwise than the store holds it.
CacheCatchUp(k) ==
    /\ k \in DOMAIN store
    /\ (k \notin DOMAIN cache \/ cache[k] # store[k])
    /\ WorkEvent(k, "fair")

\* Every ManifestWork the controller owns.
OwnedWorkKeys == UNION { { SubscriptionKey(ns), MCHKey(ns) } : ns \in ClusterNames }

\* The watch cache is eventually consistent, and a key in the queue is
\* eventually handed to a sync that meets no transient failure (queue
\* workers are fair, failed keys are requeued, failures do not last). The
\* fairness on Sync is strong because a sync that changes nothing is a
\* stuttering step: a key that waits must be served although such steps
\* lie in between.
Fairness ==
    /\ \A k \in OwnedWorkKeys : WF_vars(CacheCatchUp(k))
    /\ \A key \in ClusterNames : SF_vars(Sync(key, "none", "fair"))

SpecFair == InitFair /\ [][NextFair]_vars /\ Fairness

\* ------------------------------------------------------------------------
\* The work queue with several workers
\* ------------------------------------------------------------------------

\* Gettable handing out a waiting key whoever is working on it.
Gettable_Any(q, proc) == q

\* The keys of the queue q a worker can take: a key that was added while a
\* worker proc[w] is still on it waits until that worker is done with it.
Gettable(q, proc) == { k \in q : \A w \in Workers : proc[w] # k }

\* Worker w takes key from the queue.
QueueGet(w, key) ==
    /\ processing[w] = ""
    /\ key \in Gettable(queue, processing)
    /\ processing' = [processing EXCEPT ![w] = key]
    /\ queue' = queue \ {key}
    /\ UNCHANGED << clusters, store, cache, lastEvent, last >>

\* Worker w runs sync for the key it took and is done with it: a returned
\* error adds the key to the queue again, a runtime fault ends the process
\* with its queue and its workers. The reads and calls of the invocation
\* take effect together when it returns.
SyncDone(w, fault) ==
    LET key == processing[w]
        r == sync(key, store, fault)
    IN
    /\ key # ""
    /\ \A k \in DOMAIN r.store : r.store[k].ResourceVersion <= MaxRV
    /\ store' = r.store
    /\ processing' = IF r.err = "panic" THEN Idle
                      ELSE [processing EXCEPT ![w] = ""]
    /\ queue' = IF r.err = "panic" THEN {}
                ELSE IF r.err # NoErr THEN queue \cup {key}
                ELSE queue
    /\ lastEvent' = NoEvent
    /\ last' = NoSync
    /\ UNCHANGED << clusters, cache >>

NextQueue ==
    \/ \E name \in ClusterNames : \E obj \in ManagedClustersNamed(name) :
           ClusterEvent(name, obj, "queue")
    \/ \E name \in ClusterNames : \E tombstone \in BOOLEAN :
           ClusterDelete(name, tombstone, "queue")
    \/ \E k \in DOMAIN store : WorkEvent(k, "queue")
    \/ \E obj \in ForeignWorkObjects : ForeignWorkEvent(obj, "queue")
    \/ \E ns \in ClusterNames : \E manifests \in Statuses :
           StatusFeedback(ns, manifests)
    \/ \E ns \in ClusterNames : SpecEdit(ns)
    \/ \E w \in Workers : \E key \in ClusterNames : QueueGet(w, key)
    \/ \E w \in Workers : \E fault \in FaultPoints : SyncDone(w, fault)

\* The controller with its queue workers observed.
SpecQueue == Init /\ [][NextQueue]_vars

\* ------------------------------------------------------------------------
\* Properties of sync
\* ------------------------------------------------------------------------

SubscriptionName(key) == key \o "-" \o HOH_HUB_CLUSTER_SUBSCRIPTION

MCHName(key) == key \o "-" \o HOH_HUB_CLUSTER_MCH

\* The calls of the last invocation that write the Stage-2 work.
Stage2Calls ==
    { i \in 1..Len(last.calls) : last.calls[i].Name = MCHName(last.key) }

\* A status has a feedback entry of kind Subscription with a value named
\* state equal to AtLatestKnown.
HasAtLatestKnown(manifests) ==
    \E i \in 1..Len(manifests) :
        /\ manifests[i].Kind = "Subscription"
        /\ \E j \in 1..Len(manifests[i].Values) :
               /\ manifests[i].Values[j].Name = "state"
               /\ manifests[i].Values[j].Value.String = "AtLatestKnown"

\* C1: a create or update of the Stage-2 work is issued only in an invocation
\* whose read of the Stage-1 work succeeded and showed a Subscription
\* feedback value state = AtLatestKnown.
StagingInvariant ==
    Stage2Calls # {} =>
        /\ last.subscription.err = NoErr
        /\ HasAtLatestKnown(last.subscription.obj.Manifests)

\* An invocation has issued a Stage-2 create and another a Stage-2 update.
StagingWitness ==
    /\ Stage2Calls # {}
    /\ HasAtLatestKnown(last.subscription.obj.Manifests)
    /\ \E i \in Stage2Calls : last.calls[i].Verb = "update"

\* C5 as stated: an invocation that follows one for the same key with no
\* change made outside sync in between issues no create and no update.
IdempotenceAsStated ==
    last.second # "first" => Len(last.calls) = 0

\* C5 amended: an invocation that follows one for the same key issues no
\* create and no update, provided nothing changed outside sync in between,
\* the earlier invocation met no lister failure and no failed call, and the
\* work lister showed the store's works as they were when each of the two
\* invocations started.
IdempotenceSettled ==
    last.second = "settled" => Len(last.calls) = 0

\* A second invocation ran after one that wrote, with the lister caught up.
IdempotenceWitness ==
    /\ last.second = "settled"
    /\ last.prior > 0
    /\ last.mch.err = NoErr

\* C6: every update carries the resourceVersion of the work that this
\* invocation read from the lister under the same name, and it is not empty.
UpdateCarriesReadVersion ==
    \A i \in 1..Len(last.calls) :
        last.calls[i].Verb = "update" =>
            LET read == IF last.calls[i].Name = SubscriptionName(last.key)
                        THEN last.subscription ELSE last.mch
            IN  /\ read.err = NoErr
                /\ read.obj.Name = last.calls[i].Name
                /\ last.calls[i].ResourceVersion = read.obj.ResourceVersion
                /\ last.calls[i].ResourceVersion # 0

\* An update was sent with a version the store had already moved past.
UpdateVersionWitness ==
    \E i \in 1..Len(last.calls) :
        /\ last.calls[i].Verb = "update"
        /\ last.calls[i].Err = "Conflict"

\* C7: when the ManagedCluster is found and the Stage-1 lookup is not-found,
\* the invocation issues exactly one call, a create of <key>-<subscription
\* suffix> in namespace key with the desired content, nothing for Stage 2
\* (no call, and no Stage-2 work in the store that the lister has not seen),
\* and if the create succeeds it returns nil and the store holds the work.
ScenarioA ==
    (last.managedCluster.err = NoErr /\ last.subscription.err = "NotFound") =>
        /\ Len(last.calls) = 1
        /\ last.calls[1].Verb = "create"
        /\ last.calls[1].Name = SubscriptionName(last.key)
        /\ last.calls[1].Namespace = last.key
        /\ last.calls[1].Spec = CreateSubManifestwork(last.key).Spec
        /\ Stage2Calls = {}
        /\ MCHKey(last.key) \notin DOMAIN store \ DOMAIN cache
        /\ last.calls[1].Err = NoErr =>
               /\ last.err = NoErr
               /\ SubscriptionKey(last.key) \in DOMAIN store
               /\ store[SubscriptionKey(last.key)].Spec =
                      CreateSubManifestwork(last.key).Spec

\* The Stage-1 work was created and the invocation returned nil.
ScenarioAWitness ==
    /\ last.managedCluster.err = NoErr
    /\ last.subscription.err = "NotFound"
    /\ last.err = NoErr
    /\ SubscriptionKey(last.key) \in DOMAIN store

\* The content the Stage-2 work is to have for a ManagedCluster.
ExpectedMCHSpec(key, managedCluster) ==
    IF managedCluster.Annotations.IsNil
       \/ "mch" \notin DOMAIN managedCluster.Annotations.Map
    THEN "mch/" \o key \o "/"
    ELSE "mch/" \o key \o "/" \o managedCluster.Annotations.Map["mch"]

\* C8: when the Stage-1 work read shows state = AtLatestKnown and the
\* Stage-2 lookup is not-found, the invocation issues a create of <key>-<mch
\* suffix> in namespace key, with the content built from the mch annotation,
\* or from the empty value when the annotation or the map is absent; if the
\* create succeeds the store holds the work with that content.
ScenarioB ==
    (last.subscription.err = NoErr /\ last.mch.err = "NotFound") =>
        /\ HasAtLatestKnown(last.subscription.obj.Manifests)
        /\ \E i \in 1..Len(last.calls) :
               /\ last.calls[i].Verb = "create"
               /\ last.calls[i].Name = MCHName(last.key)
               /\ last.calls[i].Namespace = last.key
               /\ last.calls[i].Spec =
                      ExpectedMCHSpec(last.key, last.managedCluster.obj)
               /\ last.calls[i].Err = NoErr =>
                      /\ MCHKey(last.key) \in DOMAIN store
                      /\ store[MCHKey(last.key)].Spec =
                             ExpectedMCHSpec(last.key, last.managedCluster.obj)

\* The Stage-2 work was created from a user defined MCH.
ScenarioBWitness ==
    /\ last.mch.err = "NotFound"
    /\ ~last.managedCluster.obj.Annotations.IsNil
    /\ "mch" \in DOMAIN last.managedCluster.obj.Annotations.Map
    /\ MCHKey(last.key) \in DOMAIN store

\* C9: when a lookup of a work is not-found and the create that follows
\* succeeds, the invocation returns nil.
AbsenceIsNoError ==
    \A i \in 1..Len(last.calls) :
        (last.calls[i].Verb = "create" /\ last.calls[i].Err = NoErr) =>
            last.err = NoErr

\* C10: when the Stage-1 work read has no Subscription value state =
\* AtLatestKnown, the invocation issues at most one call, an update of the
\* Stage-1 work and only if the work read differs from the desired one, and
\* nothing for Stage 2.
ScenarioC ==
    (last.subscription.err = NoErr
     /\ ~HasAtLatestKnown(last.subscription.obj.Manifests)) =>
        /\ Len(last.calls) <= 1
        /\ Stage2Calls = {}
        /\ \A i \in 1..Len(last.calls) :
               /\ last.calls[i].Verb = "update"
               /\ last.calls[i].Name = SubscriptionName(last.key)
               /\ last.subscription.obj.Spec # CreateSubManifestwork(last.key).Spec

\* A Stage-1 work that is still Progressing was updated.
ScenarioCWitness ==
    /\ last.subscription.err = NoErr
    /\ last.subscription.obj.Manifests = StatusProgressing
    /\ Len(last.calls) = 1
    /\ last.calls[1].Err = NoErr

\* ------------------------------------------------------------------------
\* Properties of the event filters and queue keys
\* ------------------------------------------------------------------------

\* A ManagedCluster the controller is to leave alone.
OptedOut(cluster) ==
    MapGet(cluster.Labels, "hoh") = "disabled" \/ cluster.Name = "local-cluster"

\* C2: no notification enqueues a key that is the name of a ManagedCluster
\* carrying hoh=disabled or named local-cluster.
OptedOutNeverEnqueued ==
    (lastEvent.key # "" /\ lastEvent.keyCluster.err = NoErr) =>
        ~OptedOut(lastEvent.keyCluster.obj)

\* The ManifestWork of a notification is one of the two the controller owns.
Owned(obj) ==
    /\ ~obj.Malformed
    /\ \/ obj.Name = SubscriptionName(obj.Namespace)
       \/ obj.Name = MCHName(obj.Namespace)

\* C3: a work notification about a work that is not one of the two owned
\* names of its namespace, or about a malformed object, enqueues nothing and
\* raises nothing.
ForeignWorkIgnored ==
    [][ (lastEvent'.informer = "work" /\ ~Owned(lastEvent'.obj)) =>
            /\ ~lastEvent'.admitted
            /\ lastEvent'.key = ""
            /\ queue' = queue ]_vars

\* A notification about a work of another owner was delivered while a key
\* was waiting.
ForeignWorkWitness ==
    /\ lastEvent.informer = "work"
    /\ ~lastEvent.obj.Malformed
    /\ ~Owned(lastEvent.obj)
    /\ queue # {}

\* C4: an admitted cluster notification for cluster c and an admitted work
\* notification for either owned work of c enqueue the same key, c: the
\* name of the one and the namespace of the other.
KeyCorrelation ==
    \A c \in ClusterNames :
        /\ (lastEvent.informer = "cluster" /\ lastEvent.admitted
            /\ lastEvent.obj.Name = c) =>
               (lastEvent.key = c /\ c \in queue)
        /\ (lastEvent.informer = "work" /\ lastEvent.admitted
            /\ lastEvent.obj.Namespace = c
            /\ lastEvent.obj.Name \in {SubscriptionName(c), MCHName(c)}) =>
               (lastEvent.key = c /\ c \in queue)

\* An admitted notification about the Stage-2 work of a cluster.
KeyCorrelationWitness ==
    /\ lastEvent.informer = "work"
    /\ lastEvent.admitted
    /\ lastEvent.obj.Name = MCHName("cluster1")
    /\ lastEvent.key = "cluster1"

\* ------------------------------------------------------------------------
\* Error handling and frame of sync
\* ------------------------------------------------------------------------

\* C11: an invocation whose lookup of the ManagedCluster is not-found returns
\* nil and issues no call on the work client, whichever works of the key
\* exist.
ScenarioD ==
    (last.key # "" /\ last.managedCluster.err = "NotFound") =>
        /\ last.err = NoErr
        /\ last.calls = << >>
        /\ last.subscription = NotRead
        /\ last.mch = NotRead

\* The ManagedCluster of the key is gone while both of its works exist.
ScenarioDWitness ==
    /\ last.key = "cluster1"
    /\ last.managedCluster.err = "NotFound"
    /\ SubscriptionKey("cluster1") \in DOMAIN store
    /\ MCHKey("cluster1") \in DOMAIN store
    /\ "cluster1" \notin queue

\* The errors a lister or a call can fail with, not-found apart for a lister.
LookupFailed(read) == read.err \notin { NoErr, "NotFound", "NotRead" }

\* C12: a lookup that fails other than by not-found, or a create or update
\* that fails, ends the invocation there: the invocation returns that very
\* error, the failed step is the last one it took (no later read, no later
\* call, no second attempt of the call).
ErrorsAbort ==
    /\ LookupFailed(last.managedCluster) =>
           /\ last.err = last.managedCluster.err
           /\ last.calls = << >>
           /\ last.subscription = NotRead
           /\ last.mch = NotRead
    /\ LookupFailed(last.subscription) =>
           /\ last.err = last.subscription.err
           /\ last.calls = << >>
           /\ last.mch = NotRead
    /\ LookupFailed(last.mch) =>
           /\ last.err = last.mch.err
           /\ Stage2Calls = {}
    /\ \A i \in 1..Len(last.calls) :
           last.calls[i].Err # NoErr =>
               /\ i = Len(last.calls)
               /\ last.err = last.calls[i].Err
               /\ last.calls[i].Name = SubscriptionName(last.key) =>
                      last.mch = NotRead

\* A Stage-2 update failed after a Stage-1 update of the same invocation
\* went through.
ErrorsAbortWitness ==
    /\ Len(last.calls) = 2
    /\ last.calls[1].Err = NoErr
    /\ last.calls[2].Verb = "update"
    /\ last.calls[2].Err # NoErr
    /\ last.err = last.calls[2].Err

\* C13: an invocation for a key whose ManagedCluster carries hoh=disabled or
\* is named local-cluster when the invocation reads it issues no create and
\* no update.
KillSwitchHoldsForWrites ==
    (last.key # "" /\ last.managedCluster.err = NoErr
     /\ OptedOut(last.managedCluster.obj)) =>
        last.calls = << >>

\* The invocation went past the status scan into the Stage-2 branch: it
\* looked the Stage-2 work up, or the Stage-2 builder failed before that.
EnteredStage2 == last.mch # NotRead \/ last.err = "InvalidMCH"

\* C14: an invocation that updated the Stage-1 work read one that differs
\* from the desired one, and goes on in the same invocation to the Stage-2
\* gate, which it decides on the status of the work as read from the lister
\* before the update: Stage 2 is entered exactly when that status has
\* state = AtLatestKnown.
SingleSnapshotFallThrough ==
    (/\ Len(last.calls) >= 1
     /\ last.calls[1].Verb = "update"
     /\ last.calls[1].Name = SubscriptionName(last.key)
     /\ last.calls[1].Err = NoErr
     /\ last.err # "panic") =>
        /\ last.subscription.err = NoErr
        /\ last.subscription.obj.Spec # CreateSubManifestwork(last.key).Spec
        /\ EnteredStage2 <=> HasAtLatestKnown(last.subscription.obj.Manifests)
        /\ ~EnteredStage2 => (last.err = NoErr /\ Len(last.calls) = 1)

\* One invocation updated the Stage-1 work and then created the Stage-2
\* work.
SingleSnapshotWitness ==
    /\ Len(last.calls) = 2
    /\ last.calls[1].Verb = "update"
    /\ last.calls[1].Name = SubscriptionName(last.key)
    /\ last.calls[1].Err = NoErr
    /\ last.calls[2].Verb = "create"
    /\ last.calls[2].Name = MCHName(last.key)
    /\ last.calls[2].Err = NoErr

\* ------------------------------------------------------------------------
\* Convergence
\* ------------------------------------------------------------------------

\* The ManagedCluster c exists and is one the controller is to manage.
Admitted(c) == c \in DOMAIN clusters /\ ~OptedOut(clusters[c])

\* The Stage-1 work of c exists and reports state = AtLatestKnown.
Stage1AtLatestKnown(c) ==
    /\ SubscriptionKey(c) \in DOMAIN store
    /\ HasAtLatestKnown(store[SubscriptionKey(c)].Manifests)

\* The updates that the works of c still need fit under the largest
\* resourceVersion of the model.
Room(c) ==
    /\ (/\ SubscriptionKey(c) \in DOMAIN store
        /\ store[SubscriptionKey(c)].Spec # CreateSubManifestwork(c).Spec) =>
           store[SubscriptionKey(c)].ResourceVersion < MaxRV
    /\ (/\ MCHKey(c) \in DOMAIN store
        /\ store[MCHKey(c)].Spec # ExpectedMCHSpec(c, clusters[c])) =>
           store[MCHKey(c)].ResourceVersion < MaxRV

\* Both works of c exist with the desired content, the lister shows them
\* as they are, and a sync for c returns nil without a call.
Converged(c) ==
    /\ SubscriptionKey(c) \in DOMAIN store
    /\ store[SubscriptionKey(c)].Spec = CreateSubManifestwork(c).Spec
    /\ MCHKey(c) \in DOMAIN store
    /\ store[MCHKey(c)].Spec = ExpectedMCHSpec(c, clusters[c])
    /\ CacheCurrent(c)
    /\ sync(c, store, "none").err = NoErr
    /\ sync(c, store, "none").calls = << >>

\* C15 as stated: under fair scheduling, if an admitted ManagedCluster c
\* persists and its Stage-1 work stays at state = AtLatestKnown, then the
\* works of c converge, again and again after every disturbance.
ConvergenceAsStated ==
    \A c \in ClusterNames :
        []<>((Admitted(c) /\ Stage1AtLatestKnown(c) /\ Room(c)) => Converged(c))

\* C15 amended: the same for a ManagedCluster whose mch annotation the
\* Stage-2 builder accepts.
Convergence ==
    \A c \in ClusterNames :
        []<>((/\ Admitted(c)
              /\ UserDefinedMCH(clusters[c]) \notin InvalidMCH
              /\ Stage1AtLatestKnown(c)
              /\ Room(c)) => Converged(c))

\* The works of a cluster with a user defined MCH have converged after the
\* Stage-1 work was written to and the Stage-2 work was updated.
ConvergenceWitness ==
    /\ Admitted("cluster1")
    /\ "mch" \in DOMAIN clusters["cluster1"].Annotations.Map
    /\ Converged("cluster1")
    /\ store[SubscriptionKey("cluster1")].ResourceVersion > 1
    /\ store[MCHKey("cluster1")].ResourceVersion > 1
    /\ queue = {}

\* C16: when the Stage-1 work read shows state = AtLatestKnown, any Stage-1
\* update went through and the Stage-2 builder rejects the mch annotation,
\* the invocation returns the builder's error, does not look the Stage-2
\* work up and issues no call for it; a Stage-1 update it issued stays in
\* the store.
BuildFailure ==
    (/\ last.subscription.err = NoErr
     /\ HasAtLatestKnown(last.subscription.obj.Manifests)
     /\ UserDefinedMCH(last.managedCluster.obj) \in InvalidMCH
     /\ \A i \in 1..Len(last.calls) : last.calls[i].Err = NoErr) =>
        /\ last.err = CreateMCHManifestwork(last.key,
                           UserDefinedMCH(last.managedCluster.obj)).err
        /\ last.err # NoErr
        /\ last.mch = NotRead
        /\ Stage2Calls = {}
        /\ Len(last.calls) <= 1
        /\ Len(last.calls) = 1 =>
               /\ last.calls[1].Verb = "update"
               /\ store[SubscriptionKey(last.key)].Spec = last.calls[1].Spec
               /\ store[SubscriptionKey(last.key)].ResourceVersion =
                      last.calls[1].ResourceVersion + 1

\* The builder rejected the annotation after the Stage-1 work was updated.
BuildFailureWitness ==
    /\ last.err = "InvalidMCH"
    /\ Len(last.calls) = 1
    /\ last.calls[1].Err = NoErr
    /\ store[SubscriptionKey(last.key)].Spec = CreateSubManifestwork(last.key).Spec

\* C17: an invocation whose context is cancelled once it has looked the
\* ManagedCluster up takes no further step: it does not go on to read the
\* works and to issue a call, so no call of an invocation comes back with
\* the error of a cancelled context.
CancellationObserved ==
    \A i \in 1..Len(last.calls) : last.calls[i].Err # "Canceled"

\* The works of the store that a step created or changed.
Written == { k \in DOMAIN store' : k \notin DOMAIN store \/ store'[k] # store[k] }

\* C18: every call of an invocation for key c is a create or an update of
\* c-<subscription suffix> or c-<mch suffix> through the client of
\* namespace c; the step of the invocation removes no work from the store,
\* changes no work but those two, and leaves the ManagedClusters as they
\* are; the store never holds a work of a cluster under another name than
\* these two.
FrameOfSync ==
    [][ (store' # store \/ last' # last \/ clusters' # clusters) =>
            /\ \A i \in 1..Len(last'.calls) :
                   /\ last'.calls[i].Verb \in { "create", "update" }
                   /\ last'.calls[i].Namespace = last'.key
                   /\ last'.calls[i].Name \in { SubscriptionName(last'.key),
                                                 MCHName(last'.key) }
            /\ DOMAIN store \subseteq DOMAIN store'
            /\ \A k \in DOMAIN store' :
                   k \in { SubscriptionKey(k[1]), MCHKey(k[1]) }
            /\ (last' # last /\ last'.key # "") =>
                   /\ clusters' = clusters
                   /\ Written \subseteq { SubscriptionKey(last'.key),
                                           MCHKey(last'.key) }
                   /\ \A k \in Written :
                          \E i \in 1..Len(last'.calls) :
                              /\ last'.calls[i].Err = NoErr
                              /\ WorkKey(last'.calls[i].Namespace,
                                         last'.calls[i].Name) = k ]_vars

\* An invocation has written both works of its cluster.
FrameWitness ==
    /\ Len(last.calls) = 2
    /\ last.calls[1].Err = NoErr
    /\ last.calls[2].Err = NoErr
    /\ last.calls[1].Name # last.calls[2].Name
    /\ DOMAIN store = { SubscriptionKey(last.key), MCHKey(last.key) }

\* C20: whatever status the Stage-1 work read carries, a Subscription value
\* named state that is not a string included, the invocation ends without
\* a runtime fault.
GateIsTotal ==
    (last.key # "" /\ last.subscription.err = NoErr) => last.err # "panic"

\* ------------------------------------------------------------------------
\* Properties of the queue
\* ------------------------------------------------------------------------

\* C19: no two workers run sync for the same key at a time; a key waits in
\* the queue at most once, next to at most one invocation in flight for it;
\* a notification that changes a work or an admitted ManagedCluster leaves
\* the key waiting, also while an invocation for it is in flight, and a
\* waiting key leaves the queue only by being handed to an idle worker (or
\* with the process, on a runtime fault).
QueueDiscipline ==
    [][ /\ \A w1, w2 \in Workers :
               (w1 # w2 /\ processing'[w1] # "") =>
                   processing'[w1] # processing'[w2]
        /\ \A key \in ClusterNames :
               (key \in queue /\ key \notin queue') =>
                   \/ \E w \in Workers :
                          processing[w] = "" /\ processing'[w] = key
                   \/ /\ queue' = {}
                      /\ processing' = Idle
                      /\ \E w \in Workers : \E fault \in FaultPoints :
                             /\ processing[w] # ""
                             /\ sync(processing[w], store, fault).err = "panic"
        /\ (processing' = processing /\ store' = store) =>
               /\ \A k \in DOMAIN cache' :
                      (k \notin DOMAIN cache \/ cache'[k] # cache[k]) =>
                          k[1] \in queue'
               /\ \A c \in DOMAIN clusters' :
                      (/\ c \notin DOMAIN clusters \/ clusters'[c] # clusters[c]
                       /\ ~OptedOut(clusters'[c])) =>
                          c \in queue' ]_vars

\* A notification for a key arrived while one worker runs sync for it and
\* the other is idle.
QueueDisciplineWitness ==
    /\ processing["w1"] = "cluster1"
    /\ processing["w2"] = ""
    /\ "cluster1" \in queue
    /\ cache # store

====
